---- MODULE Spec2Model ----
(***************************************************************************)
(* Wave-function-collapse terrain generator (src/src/main.rs).             *)
(*                                                                         *)
(* The grid PlotGenerator.tiles is a function x -> y -> WaveState over     *)
(* 0..n-1; the source fixes n = 16, the model lets the side of the grid be *)
(* part of the state (DOMAIN tiles) so that small grids can be explored.   *)
(* A Superposition keeps its candidates as a sequence, as the Vec<Tile> of *)
(* the source does.                                                        *)
(***************************************************************************)
EXTENDS Integers, Sequences, FiniteSets, TLC

VARIABLES tiles, pc, sel, kind, ret, iters, plot

vars == <<tiles, pc, sel, kind, ret, iters, plot>>

(* ------------------------------ bounds --------------------------------- *)

\* largest side of a grid the collapse() driver is started on, default grid
MaxSide == 2

\* largest side of a grid the collapse() driver is started on, when the grid
\* is a force-set one
MaxAnySide == 2

\* largest side of a grid the public operations are called on directly
MaxApiSide == 3

\* how many cells of such a grid may be force-set away from the others
MaxApiForced == 1

\* largest side of a grid on which two incompatible kinds are force-set
MaxForceSide == 2

\* largest side of a grid on which the order of the visits of
\* update_neighbours is looked at
MaxOrderSide == 3

(* ------------------------------ Tile ----------------------------------- *)

Tile == {"River", "Wasteland", "Farmland"}

TileDefault == "Wasteland"

\* as ValidNeighbours, with River also allowed next to Farmland
ValidNeighboursLoose(t) ==
    CASE t = "River"     -> <<"River", "Wasteland">>
      [] t = "Wasteland" -> <<"River", "Wasteland", "Farmland">>
      [] t = "Farmland"  -> <<"Farmland", "Wasteland", "River">>

\* as ValidNeighbours, with Wasteland not allowed next to Farmland
ValidNeighboursNoBuffer(t) ==
    CASE t = "River"     -> <<"River", "Wasteland">>
      [] t = "Wasteland" -> <<"River", "Wasteland", "Farmland">>
      [] t = "Farmland"  -> <<"Farmland">>

ValidNeighbours(t) ==
    CASE t = "River"     -> <<"River", "Wasteland">>
      [] t = "Wasteland" -> <<"River", "Wasteland", "Farmland">>
      [] t = "Farmland"  -> <<"Farmland", "Wasteland">>

(* ---------------------------- WaveState -------------------------------- *)

Collapsed(t) == [tag |-> "Collapsed", tile |-> t]

Superposition(s) == [tag |-> "Superposition", pos |-> s]

IsCollapsed(w) == w.tag = "Collapsed"

IsSuperposition(w) == w.tag = "Superposition"

WaveStateDefault == Superposition(<<"River", "Wasteland", "Farmland">>)

\* slice.contains
Contains(s, t) == \E i \in 1..Len(s) : s[i] = t

\* the set of elements of a Vec
Elems(s) == {s[i] : i \in 1..Len(s)}

(* ------------------------------ grid ----------------------------------- *)

\* side length of a grid (16 in the source)
SideOf(t) == Cardinality(DOMAIN t)

Coords(n) == (0..(n - 1)) \X (0..(n - 1))

PlotGeneratorDefault(n) == [x \in 0..(n - 1) |-> [y \in 0..(n - 1) |-> WaveStateDefault]]

\* usize::MAX, at the width of TLC's integers: the scan only uses that it is
\* larger than the length of any Vec
USizeMax == 2^30 + (2^30 - 1)

(* ------------------------ find_lowest_entropy -------------------------- *)

\* as ScanCell, with a cell of entropy 1 ignored as "already collapsed"
ScanCellIgnoreOne(t, x, y, acc) ==
    LET w == t[x][y] IN
    IF IsCollapsed(w) \/ Len(w.pos) = 1 THEN acc
    ELSE IF Len(w.pos) < acc.entropy
         THEN [lowest |-> <<(<<x, y>>)>>, entropy |-> Len(w.pos)]
    ELSE IF Len(w.pos) = acc.entropy
         THEN [lowest |-> Append(acc.lowest, <<x, y>>), entropy |-> acc.entropy]
    ELSE acc

\* as ScanCell, with the reset taken on "<=" so that ties are dropped
ScanCellResetOnTie(t, x, y, acc) ==
    LET w == t[x][y] IN
    IF IsCollapsed(w) THEN acc
    ELSE IF Len(w.pos) <= acc.entropy
         THEN [lowest |-> <<(<<x, y>>)>>, entropy |-> Len(w.pos)]
    ELSE acc

\* one pass of the match in the loop body, on cell (x, y)
ScanCell(t, x, y, acc) ==
    LET w == t[x][y] IN
    IF IsCollapsed(w) THEN acc
    ELSE IF Len(w.pos) < acc.entropy
         THEN [lowest |-> <<(<<x, y>>)>>, entropy |-> Len(w.pos)]
    ELSE IF Len(w.pos) = acc.entropy
         THEN [lowest |-> Append(acc.lowest, <<x, y>>), entropy |-> acc.entropy]
    ELSE acc

\* the nested sweep "for y in 0..16 { for x in 0..16 {" over a grid of side
\* n, from its k-th cell on; a is the value of the two locals after the
\* match on the k-th cell, with which the sweep goes on
RECURSIVE ScanFrom(_, _, _, _)
ScanFrom(t, n, k, acc) ==
    IF k >= n * n THEN acc
    ELSE CHOOSE r \in {ScanFrom(t, n, k + 1, a) :
                          a \in {ScanCell(t, k % n, k \div n, acc)}} : TRUE

FindLowestEntropy(t) ==
    ScanFrom(t, SideOf(t), 0, [lowest |-> <<>>, entropy |-> USizeMax]).lowest

(* -------------------------- update_neighbours -------------------------- *)

\* Method A of the source: the four offsets of the "+" shape
NeighboursMethodA == << <<1, 0>>, <<-1, 0>>, <<0, 1>>, <<0, -1>> >>

\* Method B: the eight offsets, in the order the two loops produce them
Neighbours ==
    SelectSeq([k \in 1..9 |-> <<((k - 1) \div 3) - 1, ((k - 1) % 3) - 1>>],
              LAMBDA d : ~(d[1] = 0 /\ d[2] = 0))

\* s.iter().map(Tile::valid_neighbours).flatten().collect()
RECURSIVE FlatMapValidNeighbours(_)
FlatMapValidNeighbours(s) ==
    IF s = <<>> THEN <<>>
    ELSE ValidNeighbours(Head(s)) \o FlatMapValidNeighbours(Tail(s))

\* as Possibilities, with only the first candidate of a Superposition used
PossibilitiesFirstOnly(w) ==
    IF IsSuperposition(w)
    THEN (IF w.pos = <<>> THEN <<>> ELSE ValidNeighbours(Head(w.pos)))
    ELSE ValidNeighbours(w.tile)

Possibilities(w) ==
    IF IsSuperposition(w) THEN FlatMapValidNeighbours(w.pos)
    ELSE ValidNeighbours(w.tile)

\* "skip overflows": TRUE when the offset d leaves the grid
SkipOverflow(n, x, y, d) ==
    \/ x + d[1] < 0 \/ x + d[1] >= n
    \/ y + d[2] < 0 \/ y + d[2] >= n

\* as RemoveImpossible, with a cell left with one candidate collapsed at once
RemoveImpossibleEager(t, x, y, d, possibilities) ==
    LET dx == x + d[1]
        dy == y + d[2]
        left == SelectSeq(t[dx][dy].pos, LAMBDA k : Contains(possibilities, k))
    IN IF IsSuperposition(t[dx][dy])
       THEN [t EXCEPT ![dx][dy] =
                IF Len(left) = 1 THEN Collapsed(left[1]) ELSE Superposition(left)]
       ELSE t

\* as RemoveImpossible, with the cell given the possibilities themselves, not
\* what it had of them
RemoveImpossibleReplace(t, x, y, d, possibilities) ==
    LET dx == x + d[1]
        dy == y + d[2]
    IN IF IsSuperposition(t[dx][dy])
       THEN [t EXCEPT ![dx][dy] = Superposition(possibilities)]
       ELSE t

\* as RemoveImpossible, with Collapsed cells filtered as well
RemoveImpossibleAll(t, x, y, d, possibilities) ==
    LET dx == x + d[1]
        dy == y + d[2]
        w == t[dx][dy]
    IN IF IsSuperposition(w)
       THEN [t EXCEPT ![dx][dy] =
                Superposition(SelectSeq(w.pos, LAMBDA k : Contains(possibilities, k)))]
       ELSE IF Contains(possibilities, w.tile) THEN t
       ELSE [t EXCEPT ![dx][dy] = Superposition(<<>>)]

\* "Remove impossible states" on the cell at offset d
RemoveImpossible(t, x, y, d, possibilities) ==
    LET dx == x + d[1]
        dy == y + d[2]
    IN IF IsSuperposition(t[dx][dy])
       THEN [t EXCEPT ![dx][dy] =
                Superposition(SelectSeq(t[dx][dy].pos,
                                        LAMBDA k : Contains(possibilities, k)))]
       ELSE t

\* as UpdateLoop, with the possibilities taken anew from each cell visited
\* for the visits that follow it
RECURSIVE UpdateLoopChained(_, _, _, _, _, _)
UpdateLoopChained(t, n, x, y, possibilities, nbrs) ==
    IF nbrs = <<>> THEN t
    ELSE IF SkipOverflow(n, x, y, Head(nbrs))
         THEN UpdateLoopChained(t, n, x, y, possibilities, Tail(nbrs))
         ELSE LET u == RemoveImpossible(t, x, y, Head(nbrs), possibilities)
              IN UpdateLoopChained(u, n, x, y,
                                   Possibilities(u[x + Head(nbrs)[1]][y + Head(nbrs)[2]]),
                                   Tail(nbrs))

\* the loop "for (dx, dy) in neighbours" on a grid of side n, over the
\* offsets nbrs still to visit
RECURSIVE UpdateLoop(_, _, _, _, _, _)
UpdateLoop(t, n, x, y, possibilities, nbrs) ==
    IF nbrs = <<>> THEN t
    ELSE IF SkipOverflow(n, x, y, Head(nbrs))
         THEN UpdateLoop(t, n, x, y, possibilities, Tail(nbrs))
         ELSE UpdateLoop(RemoveImpossible(t, x, y, Head(nbrs), possibilities),
                         n, x, y, possibilities, Tail(nbrs))

UpdateNeighbours(t, x, y) ==
    UpdateLoop(t, SideOf(t), x, y, Possibilities(t[x][y]), Neighbours)

(* ------------------------------ into_plot ------------------------------ *)

PlotDefault(n) == [x \in 0..(n - 1) |-> [y \in 0..(n - 1) |-> TileDefault]]

\* the sweep of into_plot over a grid of side n, from its k-th cell on;
\* ok = FALSE is the panic
RECURSIVE IntoPlotFrom(_, _, _, _)
IntoPlotFrom(t, n, k, p) ==
    LET x == k % n
        y == k \div n
    IN IF k >= n * n THEN [ok |-> TRUE, tiles |-> p]
       ELSE IF IsCollapsed(t[x][y])
            THEN IntoPlotFrom(t, n, k + 1, [p EXCEPT ![x][y] = t[x][y].tile])
            ELSE [ok |-> FALSE, tiles |-> p]

IntoPlotResult(t) == IntoPlotFrom(t, SideOf(t), 0, PlotDefault(SideOf(t)))

(* ------------------------------ start states --------------------------- *)

NoCell == <<>>

NoKind == "None"

\* the Vecs the program builds: the default Vec and what filtering leaves of it
RECURSIVE SubVecs(_)
SubVecs(s) ==
    IF s = <<>> THEN {<<>>}
    ELSE LET rest == SubVecs(Tail(s)) IN rest \cup {<<Head(s)>> \o r : r \in rest}

WaveStates ==
    {Collapsed(k) : k \in Tile} \cup {Superposition(s) : s \in SubVecs(WaveStateDefault.pos)}

\* the grid whose cells all hold b, with the cells of F force-set to g
ForcedGrid(n, b, F, g) ==
    [x \in 0..(n - 1) |-> [y \in 0..(n - 1) |->
        IF <<x, y>> \in F THEN g ELSE b]]

Locals == /\ sel = NoCell
          /\ kind = NoKind
          /\ ret = <<>>
          /\ iters = 0
          /\ plot = <<>>

\* main(): PlotGenerator::default(), about to call collapse()
Init ==
    /\ \E n \in 1..MaxSide : tiles = PlotGeneratorDefault(n)
    /\ pc = "select"
    /\ Locals

\* collapse() called on a force-set grid: every cell holds b, but for one
\* cell c that holds g (the default grid is the case b = g = default)
InitAny ==
    /\ \E n \in 1..MaxAnySide : \E b \in WaveStates :
          \E c \in Coords(n) : \E g \in WaveStates : tiles = ForcedGrid(n, b, {c}, g)
    /\ pc = "select"
    /\ Locals

\* the public operations called directly on a grid
InitApi ==
    /\ \E n \in 1..MaxApiSide : \E b \in WaveStates : \E F \in SUBSET Coords(n) :
          /\ Cardinality(F) <= MaxApiForced
          /\ \E g \in WaveStates : tiles = ForcedGrid(n, b, F, g)
    /\ pc = "api"
    /\ Locals

\* a grid of open cells that all hold the candidates o, on which one cell
\* was force-set to River and another to Farmland; neither has propagated
InitForce ==
    /\ \E n \in 2..MaxForceSide : \E o \in SubVecs(WaveStateDefault.pos) :
          \E a \in Coords(n) : \E b \in Coords(n) \ {a} :
             tiles = [ForcedGrid(n, Superposition(o), {a}, Collapsed("River"))
                         EXCEPT ![b[1]][b[2]] = Collapsed("Farmland")]
    /\ pc = "force"
    /\ Locals

\* the public operations called on a grid whose cells all hold b, but for
\* the one in the middle, which holds g
InitOrder ==
    /\ \E n \in 1..MaxOrderSide : \E b \in WaveStates : \E g \in WaveStates :
          tiles = ForcedGrid(n, b, {<<n \div 2, n \div 2>>}, g)
    /\ pc = "api"
    /\ Locals

(* ------------------------------ collapse() ----------------------------- *)

\* as Select, with first() in the place of choose(rng)
SelectFirst ==
    /\ pc = "select"
    /\ LET found == FindLowestEntropy(tiles) IN
       IF found = <<>>
       THEN pc' = "returned" /\ sel' = NoCell
       ELSE sel' = found[1] /\ pc' = "collapse"
    /\ UNCHANGED <<tiles, kind, ret, iters, plot>>

\* loop head: find_lowest_entropy().as_slice().choose(rng); the Vec is a
\* temporary that only choose() reads
Select ==
    /\ pc = "select"
    /\ LET found == FindLowestEntropy(tiles) IN
       IF found = <<>>
       THEN pc' = "returned" /\ sel' = NoCell
       ELSE \E i \in 1..Len(found) : sel' = found[i] /\ pc' = "collapse"
    /\ UNCHANGED <<tiles, kind, ret, iters, plot>>

\* as CollapseCell, with an empty candidate set passed over, not fatal
CollapseCellSkipEmpty ==
    /\ pc = "collapse"
    /\ LET w == tiles[sel[1]][sel[2]] IN
       IF IsSuperposition(w) /\ w.pos # <<>>
       THEN \E j \in 1..Len(w.pos) :
               /\ tiles' = [tiles EXCEPT ![sel[1]][sel[2]] = Collapsed(w.pos[j])]
               /\ pc' = "update"
       ELSE pc' = "update" /\ UNCHANGED tiles
    /\ UNCHANGED <<sel, kind, ret, iters, plot>>

\* as CollapseCell, with unwrap_or_default() in the place of expect()
CollapseCellDefaulting ==
    /\ pc = "collapse"
    /\ LET w == tiles[sel[1]][sel[2]] IN
       IF IsSuperposition(w)
       THEN IF w.pos = <<>>
            THEN /\ tiles' = [tiles EXCEPT ![sel[1]][sel[2]] = Collapsed(TileDefault)]
                 /\ pc' = "update"
            ELSE \E j \in 1..Len(w.pos) :
                    /\ tiles' = [tiles EXCEPT ![sel[1]][sel[2]] = Collapsed(w.pos[j])]
                    /\ pc' = "update"
       ELSE pc' = "update" /\ UNCHANGED tiles
    /\ UNCHANGED <<sel, kind, ret, iters, plot>>

\* if let Superposition(states) = .. { tiles[x][y] = Collapsed(*states.choose(rng).expect(..)) }
CollapseCell ==
    /\ pc = "collapse"
    /\ LET w == tiles[sel[1]][sel[2]] IN
       IF IsSuperposition(w)
       THEN IF w.pos = <<>>
            THEN pc' = "panicked" /\ UNCHANGED tiles
            ELSE \E j \in 1..Len(w.pos) :
                    /\ tiles' = [tiles EXCEPT ![sel[1]][sel[2]] = Collapsed(w.pos[j])]
                    /\ pc' = "update"
       ELSE pc' = "update" /\ UNCHANGED tiles
    /\ UNCHANGED <<sel, kind, ret, iters, plot>>

\* self.update_neighbours((x, y)); end of the loop body
Update ==
    /\ pc = "update"
    /\ tiles' = UpdateNeighbours(tiles, sel[1], sel[2])
    /\ pc' = "select"
    /\ sel' = NoCell
    /\ iters' = iters + 1
    /\ UNCHANGED <<kind, ret, plot>>

\* main(): gen.into_plot() after collapse() returned
IntoPlot ==
    /\ pc = "returned"
    /\ LET r == IntoPlotResult(tiles) IN
       IF r.ok THEN plot' = r.tiles /\ pc' = "plotted"
       ELSE pc' = "plot_panicked" /\ UNCHANGED plot
    /\ UNCHANGED <<tiles, sel, kind, ret, iters>>

Next == Select \/ CollapseCell \/ Update \/ IntoPlot

Spec == Init /\ [][Next]_vars

SpecAny == InitAny /\ [][Next]_vars

(* ------------------- propagation from force-set cells ------------------ *)

\* update_neighbours(c) called on a force-set Collapsed cell c that has not
\* propagated yet; sel holds the cell of the first call until the second,
\* after which collapse() is called
UpdateForced ==
    /\ pc = "force"
    /\ \E c \in Coords(SideOf(tiles)) :
          /\ IsCollapsed(tiles[c[1]][c[2]])
          /\ c # sel
          /\ tiles' = UpdateNeighbours(tiles, c[1], c[2])
          /\ IF sel = NoCell
             THEN sel' = c /\ pc' = "force"
             ELSE sel' = NoCell /\ pc' = "select"
    /\ UNCHANGED <<kind, ret, iters, plot>>

NextForce == UpdateForced \/ Next

SpecForce == InitForce /\ [][NextForce]_vars

(* ------------------------ direct calls of the API ---------------------- *)

\* one call update_neighbours(c) on the grid
CallUpdateNeighbours ==
    /\ pc = "api"
    /\ \E c \in Coords(SideOf(tiles)) :
          /\ sel' = c
          /\ tiles' = UpdateNeighbours(tiles, c[1], c[2])
    /\ pc' = "updated"
    /\ UNCHANGED <<kind, ret, iters, plot>>

\* one call find_lowest_entropy() on the grid; ret holds the Vec returned
CallFindLowestEntropy ==
    /\ pc = "api"
    /\ ret' = FindLowestEntropy(tiles)
    /\ pc' = "scanned"
    /\ UNCHANGED <<tiles, sel, kind, iters, plot>>

\* one call k.valid_neighbours(); ret holds the Vec returned
CallValidNeighbours ==
    /\ pc = "api"
    /\ \E k \in Tile : kind' = k /\ ret' = ValidNeighbours(k)
    /\ pc' = "listed"
    /\ UNCHANGED <<tiles, sel, iters, plot>>

NextApi == CallUpdateNeighbours \/ CallFindLowestEntropy \/ CallValidNeighbours

SpecApi == InitApi /\ [][NextApi]_vars

SpecOrder == InitOrder /\ [][NextApi]_vars

(* ------------------------- vocabulary of the claims -------------------- *)

At(t, c) == t[c[1]][c[2]]

Grid(t) == Coords(SideOf(t))

OpenCells(t) == {c \in Grid(t) : IsSuperposition(At(t, c))}

Abs(i) == IF i < 0 THEN -i ELSE i

\* c and d are distinct cells of one 3x3 block
Adjacent(c, d) == c # d /\ Abs(c[1] - d[1]) <= 1 /\ Abs(c[2] - d[2]) <= 1

\* the kinds a cell may still take
Kinds(w) == IF IsCollapsed(w) THEN {w.tile} ELSE Elems(w.pos)

\* the kinds allowed next to a cell in state w
AllowedBy(w) == UNION {Elems(ValidNeighbours(k)) : k \in Kinds(w)}

MinEntropy(t) ==
    CHOOSE m \in {Len(At(t, c).pos) : c \in OpenCells(t)} :
        \A c \in OpenCells(t) : m <= Len(At(t, c).pos)

\* r lists, once each, the open cells of t of minimum entropy
IsLowestOf(r, t) ==
    /\ Elems(r) = {c \in OpenCells(t) : Len(At(t, c).pos) = MinEntropy(t)}
    /\ Len(r) = Cardinality(Elems(r))
    /\ \A i \in 1..Len(r) : IsSuperposition(At(t, r[i]))
    /\ (r = <<>>) <=> (OpenCells(t) = {})

\* the coordinates update_neighbours((x, y)) indexes the grid with
Indexed(t, c) ==
    {<<c[1] + Neighbours[i][1], c[2] + Neighbours[i][2]>> :
        i \in {j \in 1..Len(Neighbours) : ~SkipOverflow(SideOf(t), c[1], c[2], Neighbours[j])}}

(* ------------------------------- C1 ------------------------------------ *)

\* C1: when collapse() has returned from the default grid, every two
\* 8-adjacent cells are Collapsed, and the kind of the one is among the
\* valid neighbours of the kind of the other.
C1_AdjacencyConsistent ==
    pc \in {"returned", "plotted", "plot_panicked"} =>
        \A c \in Grid(tiles) : \A d \in Grid(tiles) :
            Adjacent(c, d) =>
                /\ IsCollapsed(At(tiles, c))
                /\ IsCollapsed(At(tiles, d))
                /\ At(tiles, d).tile \in Elems(ValidNeighbours(At(tiles, c).tile))

\* collapse() returned on a grid that holds a River next to a Wasteland
C1_Witness ==
    /\ pc = "returned"
    /\ \E c \in Grid(tiles) : \E d \in Grid(tiles) :
          /\ Adjacent(c, d)
          /\ At(tiles, c) = Collapsed("River")
          /\ At(tiles, d) = Collapsed("Wasteland")

(* ------------------------------- C2 ------------------------------------ *)

\* C2: when collapse() has returned, from whatever grid, no cell is a
\* Superposition; into_plot() then does not panic and its Plot holds at
\* every (x, y) the kind of the Collapsed cell (x, y).
C2_Finality ==
    /\ pc \in {"returned", "plotted", "plot_panicked"} => OpenCells(tiles) = {}
    /\ pc # "plot_panicked"
    /\ pc = "plotted" =>
          /\ DOMAIN plot = DOMAIN tiles
          /\ \A c \in Grid(tiles) : At(plot, c) = At(tiles, c).tile

\* into_plot() produced a Plot of a grid of side 2 with a non-default kind
C2_Witness ==
    /\ pc = "plotted"
    /\ SideOf(tiles) >= 2
    /\ iters >= 2
    /\ \E c \in Grid(tiles) : At(plot, c) = "Farmland"

(* ------------------------------- C3 ------------------------------------ *)

\* C3: in an iteration of collapse() the scan changes no cell, the collapse
\* step removes exactly the chosen cell from the open cells, propagation
\* leaves the open cells as they are; completed iterations plus open cells
\* never exceed side*side, so neither does the number of iterations.
C3_OneCellPerIteration ==
    [][ /\ (pc = "select" => tiles' = tiles)
        /\ (pc = "collapse" /\ pc' = "update" =>
                /\ sel \in OpenCells(tiles)
                /\ OpenCells(tiles') = OpenCells(tiles) \ {sel})
        /\ (pc = "update" =>
                /\ OpenCells(tiles') = OpenCells(tiles)
                /\ iters' = iters + 1)
        /\ (pc # "update" => iters' = iters)
        /\ (pc' = "select" =>
                iters' + Cardinality(OpenCells(tiles')) <= SideOf(tiles) * SideOf(tiles))
        /\ iters' <= SideOf(tiles) * SideOf(tiles)
      ]_vars

\* a run of side*side iterations on a grid of side 2 has returned
C3_Witness ==
    /\ pc = "returned"
    /\ SideOf(tiles) = 2
    /\ iters = 4

(* ------------------------------- C4 ------------------------------------ *)

\* C4: when the selected cell has no candidate, the collapse step ends the
\* run in the panic "No valid state possible" with the grid as it was and
\* the iteration not counted, and nothing runs after the panic.
C4_ContradictionFatal ==
    [][ /\ (pc = "collapse" /\ Kinds(At(tiles, sel)) = {} =>
                /\ pc' = "panicked"
                /\ tiles' = tiles
                /\ iters' = iters)
        /\ (pc' = "panicked" => pc = "collapse" /\ Kinds(At(tiles, sel)) = {})
        /\ pc # "panicked"
      ]_vars

\* the run panicked on a selected cell that is still an empty Superposition
C4_Witness ==
    /\ pc = "panicked"
    /\ sel \in Grid(tiles)
    /\ At(tiles, sel) = Superposition(<<>>)

(* ------------------------------- C6 ------------------------------------ *)

\* C6: find_lowest_entropy() returns, once each, exactly the open cells
\* whose candidate set has the least size among the open cells, never a
\* Collapsed cell, the empty Vec exactly when no cell is open, and leaves
\* the grid as it was.
C6_LowestEntropy ==
    [][ pc' = "scanned" => IsLowestOf(ret', tiles) /\ tiles' = tiles ]_vars

\* a scan that returned several cells and left an open cell of higher
\* entropy out
C6_Witness ==
    /\ pc = "scanned"
    /\ Len(ret) >= 2
    /\ OpenCells(tiles) \ Elems(ret) # {}

(* ------------------------------- C7 ------------------------------------ *)

ReferenceTable ==
    [k \in Tile |->
        CASE k = "River"     -> {"River", "Wasteland"}
          [] k = "Wasteland" -> {"River", "Wasteland", "Farmland"}
          [] k = "Farmland"  -> {"Farmland", "Wasteland"}]

\* C7: what k.valid_neighbours() returns is the row of k in the reference
\* table; it is not empty, it contains k, and a kind b is in it exactly
\* when k is among the valid neighbours of b.
C7_ReferenceTable ==
    pc = "listed" =>
        /\ Elems(ret) = ReferenceTable[kind]
        /\ ret # <<>>
        /\ kind \in Elems(ret)
        /\ \A b \in Tile : b \in Elems(ret) <=> kind \in Elems(ValidNeighbours(b))

\* valid_neighbours was called on Farmland
C7_Witness ==
    /\ pc = "listed"
    /\ kind = "Farmland"
    /\ ret = <<"Farmland", "Wasteland">>

(* ------------------------------- C8 ------------------------------------ *)

\* C8: on a grid of side 1 whose cell is a non-empty Superposition the
\* first scan selects the cell, the collapse step gives it one of its
\* candidates, propagation changes nothing and completes iteration one, and
\* the next scan returns.
C8_SingleCell ==
    [][ SideOf(tiles) = 1 =>
          /\ (pc = "select" /\ IsSuperposition(tiles[0][0]) =>
                  pc' = "collapse" /\ sel' = <<0, 0>> /\ iters = 0)
          /\ (pc = "collapse" /\ Kinds(tiles[0][0]) # {} =>
                  /\ pc' = "update"
                  /\ IsCollapsed(tiles'[0][0])
                  /\ tiles'[0][0].tile \in Kinds(tiles[0][0]))
          /\ (pc = "update" => tiles' = tiles /\ iters' = 1 /\ pc' = "select")
          /\ (pc = "select" /\ iters = 1 => pc' = "returned")
      ]_vars

\* a run on a grid of side 1 returned after one iteration
C8_Witness ==
    /\ SideOf(tiles) = 1
    /\ pc = "returned"
    /\ iters = 1
    /\ tiles[0][0] = Collapsed("Farmland")

(* ------------------------------- C9 ------------------------------------ *)

\* C9: update_neighbours(c) leaves every open 8-neighbour of c with the
\* candidates it had that some kind still possible at c allows (none when c
\* is an empty Superposition).
C9_Intersection ==
    [][ pc' = "updated" =>
          \A d \in Grid(tiles) :
              Adjacent(sel', d) /\ IsSuperposition(At(tiles, d)) =>
                  /\ IsSuperposition(At(tiles', d))
                  /\ Elems(At(tiles', d).pos) =
                        Elems(At(tiles, d).pos) \cap AllowedBy(At(tiles, sel'))
      ]_vars

\* propagation from a Superposition source whose one candidate is River:
\* a neighbour that held every kind is left with River and Wasteland
C9_Witness ==
    /\ pc = "updated"
    /\ SideOf(tiles) >= 2
    /\ At(tiles, sel) = Superposition(<<"River">>)
    /\ \A d \in Grid(tiles) :
          Adjacent(sel, d) => At(tiles, d) = Superposition(<<"River", "Wasteland">>)

(* ------------------------------- C10 ----------------------------------- *)

\* C10: update_neighbours(c) changes neither c, nor a cell outside the 3x3
\* block around c, nor a Collapsed cell; a Superposition stays one; the grid
\* is only indexed inside its bounds.
C10_Frame ==
    [][ pc' = "updated" =>
          /\ DOMAIN tiles' = DOMAIN tiles
          /\ At(tiles', sel') = At(tiles, sel')
          /\ \A d \in Grid(tiles) :
                /\ (~Adjacent(sel', d) => At(tiles', d) = At(tiles, d))
                /\ (IsCollapsed(At(tiles, d)) => At(tiles', d) = At(tiles, d))
                /\ (IsSuperposition(At(tiles, d)) => IsSuperposition(At(tiles', d)))
          /\ Indexed(tiles, sel') \subseteq Grid(tiles)
      ]_vars

\* propagation from a River in the corner of a grid of side 3: its
\* neighbour is a Superposition of one candidate, a cell two steps away
\* keeps its two
C10_Witness ==
    /\ pc = "updated"
    /\ SideOf(tiles) = 3
    /\ sel = <<0, 0>>
    /\ tiles[0][0] = Collapsed("River")
    /\ tiles[1][1] = Superposition(<<"Wasteland">>)
    /\ tiles[2][2] = Superposition(<<"Wasteland", "Farmland">>)

(* ------------------------------- C11 ----------------------------------- *)

\* C11: in a run of collapse() from the default grid no step adds a kind to
\* what a cell may still be, no open cell is ever left without a candidate,
\* and a cell that becomes Collapsed takes one of the candidates it had just
\* before.
C11_MonotonicTightening ==
    [][ \A c \in Grid(tiles) :
          /\ Kinds(At(tiles', c)) \subseteq Kinds(At(tiles, c))
          /\ (IsSuperposition(At(tiles', c)) => At(tiles', c).pos # <<>>)
          /\ (IsSuperposition(At(tiles', c)) =>
                 Len(At(tiles', c).pos) <= Len(At(tiles, c).pos))
          /\ (IsSuperposition(At(tiles, c)) /\ IsCollapsed(At(tiles', c)) =>
                 At(tiles', c).tile \in Elems(At(tiles, c).pos))
      ]_vars

\* a cell has been tightened twice by propagation and then collapsed: a
\* Farmland stands next to a Wasteland and an open cell is left with
\* Wasteland and Farmland
C11_Witness ==
    /\ pc = "select"
    /\ iters >= 2
    /\ \E c \in Grid(tiles) : \E d \in Grid(tiles) : \E e \in Grid(tiles) :
          /\ At(tiles, c) = Collapsed("Farmland")
          /\ At(tiles, d) = Collapsed("Wasteland")
          /\ At(tiles, e) = Superposition(<<"Wasteland", "Farmland">>)

(* ------------------------------- C12 ----------------------------------- *)

\* C12: a cell that is Collapsed(k) is Collapsed(k) after every step; the
\* scan returns no Collapsed cell and the driver's selected cell, when the
\* collapse step is reached, is not Collapsed.
C12_CollapsedIsFinal ==
    /\ [][ \A c \in Grid(tiles) :
              IsCollapsed(At(tiles, c)) => At(tiles', c) = At(tiles, c) ]_vars
    /\ [](LET found == FindLowestEntropy(tiles)
          IN \A i \in 1..Len(found) : ~IsCollapsed(At(tiles, found[i])))
    /\ [](pc = "collapse" => ~IsCollapsed(At(tiles, sel)))

\* propagation ran from a Farmland next to a Collapsed River, which a
\* filter would have emptied, and the River is still there
C12_Witness ==
    /\ pc = "select"
    /\ iters >= 1
    /\ \E c \in Grid(tiles) : \E d \in Grid(tiles) :
          /\ Adjacent(c, d)
          /\ At(tiles, c) = Collapsed("River")
          /\ At(tiles, d) = Collapsed("Farmland")

(* ------------------------------- C13 ----------------------------------- *)

\* the open cells of least entropy
MinCells(t) == {c \in OpenCells(t) : Len(At(t, c).pos) = MinEntropy(t)}

OpenOfSize(t, m) == {c \in OpenCells(t) : Len(At(t, c).pos) = m}

\* the collapse step on the selected cell can only give it its one candidate
\* and go on to propagation
CollapsesToItsOne ==
    /\ Len(At(tiles, sel).pos) = 1
    /\ ENABLED CollapseCell
    /\ ~ENABLED (CollapseCell
                    /\ ~(/\ pc' = "update"
                         /\ At(tiles', sel) = Collapsed(At(tiles, sel).pos[1])))

\* C14 as stated: whenever, after an iteration, some open cell has exactly
\* one candidate, the next iteration selects an open cell of exactly one
\* candidate and collapses it to that candidate.
C14_SingletonFirst ==
    /\ (pc = "select" /\ iters >= 1 /\ OpenOfSize(tiles, 1) # {}) =>
          FindLowestEntropy(tiles) # <<>>
    /\ (pc = "collapse" /\ iters >= 1 /\ OpenOfSize(tiles, 1) # {}) =>
          CollapsesToItsOne

\* C14, amended: whenever, after an iteration, some open cell has exactly
\* one candidate and no open cell has an empty candidate set, the next
\* iteration selects an open cell of exactly one candidate and collapses it
\* to that candidate; when an open cell with an empty candidate set exists
\* as well, such a cell is selected instead and the run aborts.
C14_SingletonFirstUnlessEmpty ==
    /\ (pc = "select" /\ iters >= 1 /\ OpenOfSize(tiles, 1) # {}) =>
          FindLowestEntropy(tiles) # <<>>
    /\ (pc = "collapse" /\ iters >= 1 /\ OpenOfSize(tiles, 1) # {}) =>
          IF OpenOfSize(tiles, 0) = {}
          THEN CollapsesToItsOne
          ELSE /\ sel \in OpenOfSize(tiles, 0)
               /\ ENABLED CollapseCell
               /\ ~ENABLED (CollapseCell /\ pc' # "panicked")

\* after a cell was collapsed to Farmland, a neighbour left with Farmland as
\* its one candidate is selected, and no open cell is empty
C14_Witness ==
    /\ pc = "collapse"
    /\ iters >= 1
    /\ At(tiles, sel) = Superposition(<<"Farmland">>)
    /\ OpenOfSize(tiles, 0) = {}
    /\ \E d \in Grid(tiles) : Adjacent(sel, d) /\ At(tiles, d) = Collapsed("Farmland")

(* ------------------------------- C15 ----------------------------------- *)

\* the open cells of t next to a Collapsed River and next to a Collapsed
\* Farmland
BetweenRiverAndFarmland(t) ==
    {o \in OpenCells(t) :
        /\ \E a \in Grid(t) : Adjacent(o, a) /\ At(t, a) = Collapsed("River")
        /\ \E b \in Grid(t) : Adjacent(o, b) /\ At(t, b) = Collapsed("Farmland")}

\* the collapse step on the selected cell can only panic
CollapsePanics ==
    /\ ENABLED CollapseCell
    /\ ~ENABLED (CollapseCell /\ pc' # "panicked")

\* C15 as stated: once a force-set River and a force-set Farmland have both
\* propagated, an open cell next to both has an empty candidate set, and
\* collapsing it panics.
C15_ContradictionScenario ==
    /\ pc = "select" =>
          \A o \in BetweenRiverAndFarmland(tiles) : At(tiles, o).pos = <<>>
    /\ (pc = "collapse" /\ sel \in BetweenRiverAndFarmland(tiles)) =>
          CollapsePanics

\* C15, amended: propagation from a River and from a Farmland leaves, in an
\* open cell next to both, Wasteland if the cell held it and nothing else
\* (neither call removes Wasteland); the cell is empty only if it did not
\* hold Wasteland. Collapsing it gives Wasteland, or panics if it is empty
\* and never gives a default kind.
C15_OnlyWastelandLeft ==
    /\ [][ pc = "force" =>
             \A o \in BetweenRiverAndFarmland(tiles) :
                 /\ IsSuperposition(At(tiles', o))
                 /\ Contains(At(tiles', o).pos, "Wasteland")
                       <=> Contains(At(tiles, o).pos, "Wasteland")
                 /\ pc' = "select" =>
                       Elems(At(tiles', o).pos)
                          = Elems(At(tiles, o).pos) \cap {"Wasteland"}
         ]_vars
    /\ [](pc = "select" =>
             \A o \in BetweenRiverAndFarmland(tiles) :
                 At(tiles, o).pos \in {<<>>, <<"Wasteland">>})
    /\ []((pc = "collapse" /\ sel \in BetweenRiverAndFarmland(tiles)) =>
             IF At(tiles, sel).pos = <<>>
             THEN CollapsePanics
             ELSE /\ ENABLED CollapseCell
                  /\ ~ENABLED (CollapseCell
                                 /\ ~(/\ pc' = "update"
                                      /\ At(tiles', sel) = Collapsed("Wasteland"))))

\* right after both force-set cells propagated, an open cell next to both
\* was selected and collapsed to Wasteland while the other open cell still
\* holds Wasteland alone
C15_Witness ==
    /\ pc = "update"
    /\ iters = 0
    /\ At(tiles, sel) = Collapsed("Wasteland")
    /\ \E a \in Grid(tiles) : Adjacent(sel, a) /\ At(tiles, a) = Collapsed("River")
    /\ \E b \in Grid(tiles) : Adjacent(sel, b) /\ At(tiles, b) = Collapsed("Farmland")
    /\ \E o \in BetweenRiverAndFarmland(tiles) : At(tiles, o).pos = <<"Wasteland">>

(* ------------------------------- C16 ----------------------------------- *)

\* the offsets of update_neighbours(c) that stay inside the grid t
InBounds(t, c) ==
    {d \in Elems(Neighbours) : ~SkipOverflow(SideOf(t), c[1], c[2], d)}

\* the cells that the offsets D lead to from c
Targets(c, D) == {<<c[1] + d[1], c[2] + d[2]>> : d \in D}

\* the grid that holds u in the cells of V and t in the others
Mix(t, u, V) ==
    [x \in DOMAIN t |-> [y \in DOMAIN t[x] |->
        IF <<x, y>> \in V THEN u[x][y] ELSE t[x][y]]]

\* one pass of the loop of update_neighbours(c), on offset d alone
Visit(t, c, possibilities, d) ==
    UpdateLoop(t, SideOf(t), c[1], c[2], possibilities, <<d>>)

Reverse(s) == [i \in 1..Len(s) |-> s[Len(s) + 1 - i]]

\* C16: in update_neighbours(c), whatever set D of in-bounds neighbours has
\* been visited already, in whatever order, the grid holds the final state
\* of the call in the cells of D and the state before the call elsewhere,
\* and visiting any further offset d keeps it so for D and d; so every
\* order of the visits ends in the grid the call returns, and so does the
\* reverse of the order of the source.
C16_OrderIndependent ==
    [][ pc' = "updated" =>
          LET c == sel'
              possibilities == Possibilities(At(tiles, c))
              inside == InBounds(tiles, c)
          IN /\ \A D \in SUBSET inside :
                   LET visited == Mix(tiles, tiles', Targets(c, D))
                   IN \A d \in Elems(Neighbours) \ D :
                         Visit(visited, c, possibilities, d)
                           = IF d \in inside
                             THEN [visited EXCEPT ![c[1] + d[1]][c[2] + d[2]] =
                                      tiles'[c[1] + d[1]][c[2] + d[2]]]
                             ELSE visited
             /\ Mix(tiles, tiles', Targets(c, InBounds(tiles, c))) = tiles'
             /\ UpdateLoop(tiles, SideOf(tiles), c[1], c[2], possibilities,
                           Reverse(Neighbours)) = tiles'
      ]_vars

\* propagation from a River in the middle of a grid of side 3, all eight
\* neighbours narrowed
C16_Witness ==
    /\ pc = "updated"
    /\ SideOf(tiles) = 3
    /\ sel = <<1, 1>>
    /\ At(tiles, sel) = Collapsed("River")
    /\ \A d \in Grid(tiles) :
          Adjacent(sel, d) => At(tiles, d) = Superposition(<<"River", "Wasteland">>)

(* ------------------------------- C17 ----------------------------------- *)

\* C17: find_lowest_entropy never returns the coordinate of a cell whose
\* candidate set has size 1 (its doc comment: "if found_entropy = 1:
\* ignore, is already collapsed").
C17_IgnoresEntropyOne ==
    pc = "scanned" =>
        \A i \in 1..Len(ret) : Len(At(tiles, ret[i]).pos) # 1

(* ------------------------------- C18 ----------------------------------- *)

\* C18: from the default grid every open cell always holds Wasteland among
\* its candidates, so the collapse step never finds an empty candidate set:
\* collapse() never panics, takes at most one iteration per cell, and
\* returns with every cell Collapsed.
C18_NoContradiction ==
    /\ \A c \in OpenCells(tiles) : Contains(At(tiles, c).pos, "Wasteland")
    /\ pc \in {"select", "collapse", "update", "returned", "plotted"}
    /\ pc = "collapse" =>
          /\ ENABLED CollapseCell
          /\ ~ENABLED (CollapseCell /\ pc' # "update")
    /\ iters <= SideOf(tiles) * SideOf(tiles)
    /\ pc = "returned" => OpenCells(tiles) = {}

\* collapse() has returned from a grid of side 2 after four iterations, with
\* a River on the grid
C18_Witness ==
    /\ pc = "returned"
    /\ SideOf(tiles) = 2
    /\ iters = 4
    /\ OpenCells(tiles) = {}
    /\ \E c \in Grid(tiles) : At(tiles, c) = Collapsed("River")

(* ------------------------------- C19 ----------------------------------- *)

\* the kinds that every Collapsed cell next to c allows
AllowedAround(t, c) ==
    {k \in Tile :
        \A d \in Grid(t) :
            (Adjacent(c, d) /\ IsCollapsed(At(t, d))) =>
                k \in Elems(ValidNeighbours(At(t, d).tile))}

\* C19: at the head of every iteration of collapse() on the default grid,
\* the candidates of each open cell are exactly the kinds that all the
\* Collapsed cells among its 8 neighbours allow (every kind when there is
\* none), each held once.
C19_ExactConstraint ==
    pc = "select" =>
        \A c \in OpenCells(tiles) :
            /\ Elems(At(tiles, c).pos) = AllowedAround(tiles, c)
            /\ Len(At(tiles, c).pos) = Cardinality(AllowedAround(tiles, c))

\* at the head of the third iteration, next to a Farmland and a Wasteland,
\* an open cell holds Wasteland and Farmland
C19_Witness ==
    /\ pc = "select"
    /\ iters = 2
    /\ \E c \in OpenCells(tiles) :
          /\ At(tiles, c).pos = <<"Wasteland", "Farmland">>
          /\ \E d \in Grid(tiles) : Adjacent(c, d) /\ At(tiles, d) = Collapsed("Farmland")
          /\ \E d \in Grid(tiles) : Adjacent(c, d) /\ At(tiles, d) = Collapsed("Wasteland")

(* ------------------------------- C20 ----------------------------------- *)

\* C20: in collapse() the cell handed to the collapse step is a
\* Superposition and the cell handed to update_neighbours is Collapsed: the
\* run got past the collapse step only by collapsing that cell, and the
\* possibilities of the call are those of its one kind.
C20_CollapsedSource ==
    /\ pc = "collapse" => IsSuperposition(At(tiles, sel))
    /\ pc = "update" =>
          /\ IsCollapsed(At(tiles, sel))
          /\ Possibilities(At(tiles, sel)) = ValidNeighbours(At(tiles, sel).tile)
    /\ pc = "panicked" => At(tiles, sel) = Superposition(<<>>)

\* on a force-set grid, update_neighbours is about to be called on a cell
\* just collapsed to River, next to an open cell that holds Farmland alone
C20_Witness ==
    /\ pc = "update"
    /\ At(tiles, sel) = Collapsed("River")
    /\ \E c \in OpenCells(tiles) :
          Adjacent(sel, c) /\ At(tiles, c).pos = <<"Farmland">>

====
